---- MODULE Spec2Model ----
(***************************************************************************)
(* SortSeek backend: the indexing core (FileService, SearchService and the *)
(* request handlers of main.py) as a state machine.                        *)
(*                                                                         *)
(* The relational database (documents table) and the ChromaDB collection   *)
(* are persistent; the files on disk are the environment.  Every request   *)
(* handler runs to completion on the single asyncio event loop (none of    *)
(* the awaited coroutines suspends), so one handler is one action.         *)
(***************************************************************************)
EXTENDS Integers, Sequences, FiniteSets, TLC

\* ------------------------------------------------------------------ bounds
MaxBytes == 3       \* file contents are the byte strings 0..MaxBytes
MaxTime == 1        \* modification times are the clock ticks 1..MaxTime
MaxDocs == 2        \* document ids are 1..MaxDocs
MaxPieces == 2      \* store failures are drawn per chunk position 0..MaxPieces-1
MaxRequests == 4    \* requests and file changes in one behaviour

\* --------------------------------------------------------- program constants
None == -1          \* Python None / SQL NULL in an integer-valued field
MinChunkLen == 50   \* _create_chunks keeps chunks with len(strip) >= 50

Paths == {"a.txt", "b.pdf"}
\* the order in which rglob yields the files of the imported folder
FolderWalk == <<"a.txt", "b.pdf">>
UploadPaths == {"a.txt"}
DocIds == 1..MaxDocs
Times == 1..MaxTime
Bytes == 0..MaxBytes
Positions == 0..(MaxPieces - 1)
\* the adds that raise in one pass: none, or the first k (the store is down
\* from the start of the pass until it recovers)
FailSets == {{}} \cup {0..k : k \in Positions}

FileTypeOf(p) == IF p = "b.pdf" THEN ".pdf" ELSE ".txt"

\* ------------------------------------------------- the external collaborators
\* What RecursiveCharacterTextSplitter.split_text returns on the text of the
\* file whose bytes are b: the trimmed lengths of the pieces, in order.
\* 0: empty file; 1: one short text (47 chars, as in test_efficient_indexing);
\* 2: one chunk; 3: two chunks; 5: the three short pages joined.
Split(b) ==
    CASE b = 0 -> << >>
      [] b = 1 -> <<47>>
      [] b = 2 -> <<700>>
      [] b = 3 -> <<750, 400>>
      [] b = 5 -> <<17>>
      [] OTHER -> <<600>>

\* What pdfplumber's page.extract_text() returns per page of the PDF whose
\* bytes are b: the trimmed length of each page's text (0: a blank page).
Pages(b) ==
    CASE b = 0 -> << >>
      [] b = 1 -> <<47>>
      [] b = 2 -> <<700>>
      [] b = 3 -> <<750, 400>>
      [] b = 5 -> <<5, 5, 5>>
      [] OTHER -> <<600>>

RECURSIVE SumSeq(_)
SumSeq(s) == IF s = << >> THEN 0 ELSE Head(s) + SumSeq(Tail(s))

\* st_size of the file whose bytes are b
Size(b) == SumSeq(Pages(b))

\* hashlib.md5 of the bytes (collisions not modelled: bytes 4 and above share
\* the size but not the hash)
Md5(b) == b

NoFile == [exists |-> FALSE, bytes |-> 0, mtime |-> 0]
FileStates == {NoFile} \cup [exists : {TRUE}, bytes : Bytes, mtime : Times]

\* ------------------------------------------------------------------- state
VARIABLES
    files,      \* path -> the file on disk (environment)
    docs,       \* document id -> row of the documents table, or NoDoc
    store,      \* the entries of the ChromaDB collection "sortseek"
    running,    \* startup_event has completed (collection is not None)
    last,       \* what the last request did: its calls and their store operations
    served,     \* number of requests and file changes so far
    fpq,        \* a change-detection query (used by SpecFP only)
    emb,        \* the embedding side of the collection (used by SpecEmbed only)
    sched,      \* the handler tasks on the event loop (used by SpecSched only)
    sq,         \* a search query and its answer (used by SpecBoost and SpecSearch)
    cq          \* a text given to the chunker and its chunks (used by SpecChunk only)

vars == <<files, docs, store, running, last, served, fpq, emb, sched, sq, cq>>

NoDoc == [present |-> FALSE]
NoQuery == [phase |-> "none"]
NoEmb == [provider |-> "none"]
NoSched == [loop |-> 0]
NoSearch == [phase |-> "none"]
NoChunking == [phase |-> "none"]

DocsAt(ds, p) == {d \in DocIds : ds[d].present /\ ds[d].file_path = p}
DocAt(ds, p) == CHOOSE d \in DocsAt(ds, p) : TRUE
StoredFp(ds, d) ==
    [size |-> ds[d].file_size, mtime |-> ds[d].modified_time, hash |-> ds[d].file_hash]
EntriesOf(st, d) == {e \in st : e.did = d}
IdsOf(st, d) == {e.idx : e \in EntriesOf(st, d)}

\* SQLite INTEGER PRIMARY KEY without AUTOINCREMENT: largest rowid + 1
NextId(ds) ==
    LET used == {d \in DocIds : ds[d].present}
    IN IF used = {} THEN 1 ELSE (CHOOSE m \in used : \A d \in used : d <= m) + 1

\* ---------------------------------------------------------- ChangeDetector
\* _calculate_file_hash: the digest, or None when reading fails
CalculateFileHash(f, hashOK) == IF f.exists /\ hashOK THEN Md5(f.bytes) ELSE None

\* _get_file_modified_time: st_mtime, or None when stat fails
GetFileModifiedTime(f) == IF f.exists THEN f.mtime ELSE None

\* the fingerprint the code computes for file f
CurrentFp(f, hashOK) ==
    [size |-> IF f.exists THEN Size(f.bytes) ELSE None,
     mtime |-> GetFileModifiedTime(f),
     hash |-> CalculateFileHash(f, hashOK)]

\* a change check that trusts size and modification time alone
CheckFileChangedNoHash(f, stored, hashOK) ==
    IF ~f.exists THEN TRUE
    ELSE stored.size # Size(f.bytes) \/ stored.mtime # GetFileModifiedTime(f)

\* _check_file_changed: stat raising makes it return True
CheckFileChanged(f, stored, hashOK) ==
    IF ~f.exists THEN TRUE
    ELSE LET size_changed == stored.size # Size(f.bytes)
             time_changed == stored.mtime # GetFileModifiedTime(f)
             hash_changed == stored.hash # CalculateFileHash(f, hashOK)
         IN size_changed \/ time_changed \/ hash_changed

\* ------------------------------------------------------ ExtractionGateway
\* _extract_content: the text (named by the bytes it came from), or None
\* when the file is missing, unreadable or holds no text
ExtractContent(f) ==
    IF f.exists /\ Size(f.bytes) > 0 THEN f.bytes ELSE None

HasText(t) == t # None /\ Size(t) > 0

\* the (page number, text) pairs extract_pdf_chunks builds from the PDF whose
\* bytes are b: every page with non-blank text
PageChunks(b) ==
    LET ps == Pages(b)
        all == [i \in 1..Len(ps) |-> [idx |-> None, page |-> i, len |-> ps[i], text |-> b]]
    IN SelectSeq(all, LAMBDA c : c.len > 0)

\* extract_pdf_chunks: an unreadable file gives the empty list
ExtractPdfChunks(f) == IF ~f.exists THEN << >> ELSE PageChunks(f.bytes)

\* --------------------------------------------------------- ChunkingEngine
\* _create_chunks: split, keep the pieces of at least MinChunkLen trimmed
\* characters, each with chunk_index = its position in the unfiltered split
CreateChunks(t) ==
    LET ps == Split(t)
        all == [i \in 1..Len(ps) |->
                  [idx |-> i - 1, page |-> 0, len |-> ps[i], text |-> t]]
    IN SelectSeq(all, LAMBDA c : c.len >= MinChunkLen)

\* ---------------------------------------------------- IndexingOrchestrator
\* the id of the i-th valid chunk: doc_{id}_chunk_{metadata.get('chunk_index', i)}
ChunkIdx(c, i) == IF c.idx # None THEN c.idx ELSE i - 1

Entry(d, c, i) ==
    [did |-> d, idx |-> ChunkIdx(c, i), text |-> c.text, page |-> c.page, len |-> c.len]

\* the loop of index_document_chunks over the valid chunks. collection.add of
\* one entry raises when the store fails (position in fail); an id the
\* collection already holds is not replaced
RECURSIVE AddLoop(_, _, _, _, _, _)
AddLoop(st, d, valid, i, fail, ops) ==
    IF i > Len(valid)
    THEN [store |-> st, pass |-> TRUE, ops |-> ops, text |-> valid[1].text]
    ELSE LET e == Entry(d, valid[i], i)
             how == IF (i - 1) \in fail THEN "raised"
                    ELSE IF e.idx \in IdsOf(st, d) THEN "duplicate"
                    ELSE "stored"
         IN AddLoop(IF how = "stored" THEN st \cup {e} ELSE st, d, valid, i + 1, fail,
                    Append(ops, [op |-> "add", how |-> how]))

\* an add of call c raised
Raised(c) == \E i \in 1..Len(c.ops) : c.ops[i].how = "raised"

NoPass == [pass |-> FALSE, ops |-> << >>, text |-> None]

\* index_document_chunks, after the non-blank chunks have been selected
IndexValidChunks(st, d, valid, fail) ==
    IF valid = << >> THEN [store |-> st] @@ NoPass
    ELSE AddLoop(st, d, valid, 1, fail, << >>)

\* index_document_chunks
IndexDocumentChunks(st, d, chunks, fail) ==
    IndexValidChunks(st, d, SelectSeq(chunks, LAMBDA c : c.len > 0), fail)

\* index_document, once the content to index is known: no content or no
\* chunks returns early; otherwise the row is marked indexed after the pass
IndexContent(ds, st, d, content, fail) ==
    IF ~HasText(content) \/ CreateChunks(content) = << >>
    THEN [docs |-> ds, store |-> st] @@ NoPass
    ELSE [docs |-> [ds EXCEPT ![d].is_indexed = TRUE, ![d].embedding_path = "chunked"]]
         @@ IndexDocumentChunks(st, d, CreateChunks(content), fail)

\* index_document: the stored content, or the file's text extracted again
\* (and saved on the row) when the row has none
IndexDocument(ds, st, fs, d, fail) ==
    LET doc == ds[d]
        re == ExtractContent(fs[doc.file_path])
    IN IF HasText(doc.content) THEN IndexContent(ds, st, d, doc.content, fail)
       ELSE IF HasText(re)
       THEN IndexContent([ds EXCEPT ![d].content = re], st, d, re, fail)
       ELSE [docs |-> ds, store |-> st] @@ NoPass

\* the set of entries index_document_chunks builds for document d from chunks
ChunkSet(d, chunks) ==
    LET valid == SelectSeq(chunks, LAMBDA c : c.len > 0)
    IN {Entry(d, valid[i], i) : i \in 1..Len(valid)}

\* the record of one call of _import_single_file or index_document: its
\* inputs, what the stored state was before it, and what it did (r)
Call(p, d, ds, st, check, fpfail, extracted, content, r, after) ==
    LET known == d \in DocIds /\ ds[d].present
    IN [path |-> p, did |-> d, check |-> check, fpfail |-> fpfail,
        extracted |-> extracted, content |-> content,
        pass |-> r.pass, ops |-> r.ops, text |-> r.text,
        via |-> IF ~r.pass THEN "none"
                ELSE IF check \in {"new", "forced", "changed"} /\ FileTypeOf(p) = ".pdf"
                THEN "pages" ELSE "split",
        hadEntries |-> d \in DocIds /\ EntriesOf(st, d) # {},
        known |-> known,
        fpChanged |-> d \in DocIds /\ (~known \/ StoredFp(after, d) # StoredFp(ds, d)),
        wasIndexed |-> known /\ ds[d].is_indexed]

\* the indexing step at the end of _import_single_file (search_service is
\* set whenever the application is running): PDFs by page, the rest through
\* index_document
IndexImported(ds, st, fs, p, d, fail) ==
    IF FileTypeOf(p) = ".pdf"
    THEN [docs |-> ds] @@ IndexDocumentChunks(st, d, ExtractPdfChunks(fs[p]), fail)
    ELSE IndexDocument(ds, st, fs, d, fail)

\* what _import_single_file returns after its indexing step r
Imported(p, d, ds, st, check, fpfail, r) ==
    [docs |-> r.docs, store |-> r.store, ret |-> d,
     call |-> Call(p, d, ds, st, check, fpfail, TRUE, TRUE, r, r.docs)]

\* a row written without the file's modification time
ImportedRowUnstamped(p, content, fp) ==
    [present |-> TRUE, file_path |-> p, file_type |-> FileTypeOf(p),
     file_size |-> fp.size, content |-> content,
     modified_time |-> None, file_hash |-> fp.hash,
     is_indexed |-> FALSE, embedding_path |-> "none"]

\* the row _import_single_file writes before indexing: new content and the
\* file's current fingerprint, marked for reindexing
ImportedRow(p, content, fp) ==
    [present |-> TRUE, file_path |-> p, file_type |-> FileTypeOf(p),
     file_size |-> fp.size, content |-> content,
     modified_time |-> fp.mtime, file_hash |-> fp.hash,
     is_indexed |-> FALSE, embedding_path |-> "none"]

\* an import that marks a known document for reindexing before it knows
\* whether the extraction gave any text
ImportCheckedUnmarks(ds, st, fs, p, d, check, fpfail, hashOK, fail) ==
    IF check = "unchanged"
    THEN [docs |-> ds, store |-> st, ret |-> d,
          call |-> Call(p, d, ds, st, check, fpfail, FALSE, FALSE, NoPass, ds)]
    ELSE IF ~HasText(ExtractContent(fs[p])) /\ check = "new"
    THEN [docs |-> ds, store |-> st, ret |-> 0,
          call |-> Call(p, 0, ds, st, check, fpfail, TRUE, FALSE, NoPass, ds)]
    ELSE IF ~HasText(ExtractContent(fs[p]))
    THEN [docs |-> [ds EXCEPT ![d].is_indexed = FALSE], store |-> st, ret |-> d,
          call |-> Call(p, d, ds, st, check, fpfail, TRUE, FALSE, NoPass, ds)]
    ELSE Imported(p, d, ds, st, check, fpfail,
                  IndexImported([ds EXCEPT ![d] =
                                    ImportedRow(p, ExtractContent(fs[p]),
                                                CurrentFp(fs[p], hashOK))],
                                st, fs, p, d, fail))
\* _import_single_file on document d (the row of path p, or the id a new
\* row gets) with the outcome of the change check
ImportChecked(ds, st, fs, p, d, check, fpfail, hashOK, fail) ==
    LET content == ExtractContent(fs[p])
    IN IF check = "unchanged"
       THEN [docs |-> ds, store |-> st, ret |-> d,
             call |-> Call(p, d, ds, st, check, fpfail, FALSE, FALSE, NoPass, ds)]
       ELSE IF ~HasText(content)
       THEN [docs |-> ds, store |-> st, ret |-> IF check = "new" THEN 0 ELSE d,
             call |-> Call(p, IF check = "new" THEN 0 ELSE d, ds, st, check, fpfail,
                           TRUE, FALSE, NoPass, ds)]
       ELSE Imported(p, d, ds, st, check, fpfail,
                     IndexImported([ds EXCEPT ![d] =
                                       ImportedRow(p, content, CurrentFp(fs[p], hashOK))],
                                   st, fs, p, d, fail))

\* _import_single_file
ImportSingleFile(ds, st, fs, p, force, hashOK, fail) ==
    LET f == fs[p]
        known == DocsAt(ds, p) # {}
    IN IF ~known
       THEN ImportChecked(ds, st, fs, p, NextId(ds), "new", FALSE, hashOK, fail)
       ELSE ImportChecked(ds, st, fs, p, DocAt(ds, p),
                          IF force THEN "forced"
                          ELSE IF CheckFileChanged(f, StoredFp(ds, DocAt(ds, p)), hashOK)
                          THEN "changed" ELSE "unchanged",
                          ~force /\ (~f.exists \/ ~hashOK), hashOK, fail)

NoResult == [total |-> 0, indexed |-> 0, skipped |-> 0]

\* import_folder's bookkeeping for one returned value r of _import_single_file:
\* a returned document counts as indexed when its row says is_indexed, as
\* skipped otherwise; a None return is counted nowhere
CountImported(res, r) ==
    IF r.ret = 0 THEN res
    ELSE IF r.docs[r.ret].is_indexed
    THEN [res EXCEPT !.total = @ + 1, !.indexed = @ + 1]
    ELSE [res EXCEPT !.total = @ + 1, !.skipped = @ + 1]

\* import_folder: every existing supported file under the folder, in the
\* order rglob yields them
RECURSIVE ImportFolderLoop(_, _, _, _, _, _, _, _)
\* a folder import that gives up at the first file that fails
ImportFolderAbort(fs, rest, force, failing, calls, res, r) ==
    IF r.ret = 0 \/ Raised(r.call)
    THEN [docs |-> r.docs, store |-> r.store, calls |-> Append(calls, r.call),
          result |-> CountImported(res, r)]
    ELSE ImportFolderLoop(r.docs, r.store, fs, rest, force, failing,
                          Append(calls, r.call), CountImported(res, r))

ImportFolderNext(fs, rest, force, failing, calls, res, r) ==
    ImportFolderLoop(r.docs, r.store, fs, rest, force, failing, Append(calls, r.call),
                     CountImported(res, r))

ImportFolderLoop(ds, st, fs, walk, force, failing, calls, res) ==
    IF walk = << >> THEN [docs |-> ds, store |-> st, calls |-> calls, result |-> res]
    ELSE IF ~fs[Head(walk)].exists
    THEN ImportFolderLoop(ds, st, fs, Tail(walk), force, failing, calls, res)
    ELSE ImportFolderNext(fs, Tail(walk), force, failing, calls, res,
                          ImportSingleFile(ds, st, fs, Head(walk), force, TRUE,
                                           IF Head(walk) \in failing THEN Positions
                                           ELSE {}))

\* _index_existing_documents: index_document on every row with is_indexed = False
RECURSIVE IndexExistingLoop(_, _, _, _, _, _)
IndexExistingNext(ds, st, fs, d, failing, calls, r) ==
    IndexExistingLoop(r.docs, r.store, fs, d + 1, failing,
                      Append(calls, Call(ds[d].file_path, d, ds, st, "startup", FALSE,
                                         FALSE, FALSE, r, r.docs)))

IndexExistingLoop(ds, st, fs, d, failing, calls) ==
    IF d > MaxDocs THEN [docs |-> ds, store |-> st, calls |-> calls]
    ELSE IF ~ds[d].present \/ ds[d].is_indexed
    THEN IndexExistingLoop(ds, st, fs, d + 1, failing, calls)
    ELSE IndexExistingNext(ds, st, fs, d, failing, calls,
                           IndexDocument(ds, st, fs, d,
                                         IF d \in failing THEN Positions ELSE {}))

\* reindex_all_documents: index_document on every row that has content
RECURSIVE ReindexAllLoop(_, _, _, _, _, _, _)
ReindexAllNext(ds, st, fs, d, failing, calls, res, r) ==
    ReindexAllLoop(r.docs, r.store, fs, d + 1, failing,
                   Append(calls, Call(ds[d].file_path, d, ds, st, "sweep", FALSE, FALSE,
                                      FALSE, r, r.docs)),
                   [res EXCEPT !.total = @ + 1, !.indexed = @ + 1])

ReindexAllLoop(ds, st, fs, d, failing, calls, res) ==
    IF d > MaxDocs THEN [docs |-> ds, store |-> st, calls |-> calls, result |-> res]
    ELSE IF ~ds[d].present
    THEN ReindexAllLoop(ds, st, fs, d + 1, failing, calls, res)
    ELSE IF ~HasText(ds[d].content)
    THEN ReindexAllLoop(ds, st, fs, d + 1, failing, calls, [res EXCEPT !.total = @ + 1])
    ELSE ReindexAllNext(ds, st, fs, d, failing, calls, res,
                        IndexDocument(ds, st, fs, d,
                                      IF d \in failing THEN Positions ELSE {}))

\* startup_event after initialize(): an empty collection triggers
\* reindex_all_documents
StartupSweep(a, fs, failing) ==
    IF a.store = {}
    THEN [op |-> "startup_sweep"]
         @@ ReindexAllLoop(a.docs, a.store, fs, 1, failing, a.calls, NoResult)
    ELSE [op |-> "startup", result |-> NoResult] @@ a

\* ------------------------------------------------------------------ actions
NoPrev == [path |-> "", force |-> FALSE, hashOK |-> TRUE, check |-> "none",
           content |-> FALSE, failed |-> FALSE]
Request(op, force, hashOK, calls, prev, result) ==
    [op |-> op, force |-> force, hashOK |-> hashOK, calls |-> calls, prev |-> prev,
     result |-> result]

\* what an import keeps of the request before it, when that was an import too
PrevOf(l) ==
    IF l.op = "import"
    THEN LET c == l.calls[1]
         IN [path |-> c.path, force |-> l.force, hashOK |-> l.hashOK, check |-> c.check,
             content |-> c.content, failed |-> c.pass /\ Raised(c)]
    ELSE NoPrev

\* new rows fit the document ids of the model
RoomFor(ps) ==
    NextId(docs) + Cardinality({p \in ps : DocsAt(docs, p) = {}}) - 1 <= MaxDocs

\* one more request or file change, within the bound of the model
Tick == served < MaxRequests /\ served' = served + 1

Init ==
    /\ files \in [Paths -> FileStates]
    /\ docs = [d \in DocIds |-> NoDoc]
    /\ store = {}
    /\ running = FALSE
    /\ last = Request("init", FALSE, TRUE, << >>, NoPrev, NoResult)
    /\ served = 0
    /\ cq = NoChunking
    /\ fpq = NoQuery
    /\ emb = NoEmb
    /\ sched = NoSched
    /\ sq = NoSearch

\* the environment writes, rewrites or removes a file
ModifyFile(p) ==
    /\ Tick
    /\ \E f \in FileStates : f # files[p] /\ files' = [files EXCEPT ![p] = f]
    /\ last' = Request("modify", FALSE, TRUE, << >>, NoPrev, NoResult)
    /\ UNCHANGED <<docs, store, running, fpq, emb, sched, sq, cq>>

\* startup_event: initialize() drops and recreates the collection and indexes
\* the unindexed rows; an empty collection then triggers reindex_all_documents
Startup ==
    /\ Tick
    /\ ~running
    /\ \E failing \in SUBSET DocIds :
         \E b \in {StartupSweep(IndexExistingLoop(docs, {}, files, 1, failing, << >>),
                                files, failing)} :
            /\ docs' = b.docs
            /\ store' = b.store
            /\ last' = Request(b.op, FALSE, TRUE, b.calls, NoPrev, b.result)
    /\ running' = TRUE
    /\ UNCHANGED <<files, fpq, emb, sched, sq, cq>>

\* shutdown_event: cleanup() resets nothing (self.client is never set); the
\* database and the collection persist
Shutdown ==
    /\ Tick
    /\ running
    /\ running' = FALSE
    /\ last' = Request("shutdown", FALSE, TRUE, << >>, NoPrev, NoResult)
    /\ UNCHANGED <<files, docs, store, fpq, emb, sched, sq, cq>>

\* POST /import with one path (force = False) and POST /import/file/force
\* (both answer without an import when the file does not exist)
ImportPath(p, force) ==
    /\ Tick
    /\ running
    /\ files[p].exists
    /\ RoomFor({p})
    /\ \E hashOK \in BOOLEAN, fail \in FailSets :
         \E r \in {ImportSingleFile(docs, store, files, p, force, hashOK, fail)} :
            /\ docs' = r.docs
            /\ store' = r.store
            /\ last' = Request("import", force, hashOK, <<r.call>>, PrevOf(last), NoResult)
    /\ UNCHANGED <<files, running, fpq, emb, sched, sq, cq>>

\* POST /import/folder
ImportFolder(force) ==
    /\ Tick
    /\ running
    /\ RoomFor(Paths)
    /\ \E failing \in SUBSET Paths :
         \E r \in {ImportFolderLoop(docs, store, files, FolderWalk, force, failing,
                                    << >>, NoResult)} :
            /\ docs' = r.docs
            /\ store' = r.store
            /\ last' = Request("import_folder", force, TRUE, r.calls, NoPrev, r.result)
    /\ UNCHANGED <<files, running, fpq, emb, sched, sq, cq>>

\* POST /import/file: the upload is written to DOCUMENTS_DIR/<name> (its
\* modification time is the clock tick of the write), imported by
\* FileService.import_file (which passes no force) and unlinked
UploadFile(p, force) ==
    /\ Tick
    /\ running
    /\ RoomFor({p})
    /\ \E b \in Bytes, m \in Times, fail \in FailSets :
         \E r \in {ImportSingleFile(docs, store,
                                    [files EXCEPT ![p] = [exists |-> TRUE, bytes |-> b,
                                                          mtime |-> m]],
                                    p, FALSE, TRUE, fail)} :
            /\ docs' = r.docs
            /\ store' = r.store
            /\ last' = Request("upload", force, TRUE, <<r.call>>, NoPrev, NoResult)
    /\ files' = [files EXCEPT ![p] = NoFile]
    /\ UNCHANGED <<running, fpq, emb, sched, sq, cq>>

\* POST /documents/{id}/refresh
RefreshDocument(d) ==
    /\ Tick
    /\ running
    /\ docs[d].present
    /\ files[docs[d].file_path].exists
    /\ HasText(ExtractContent(files[docs[d].file_path]))
    /\ \E fail \in FailSets :
         \E r \in {IndexDocument(
                     [docs EXCEPT ![d].content = ExtractContent(files[docs[d].file_path]),
                                  ![d].file_size = Size(files[docs[d].file_path].bytes),
                                  ![d].is_indexed = FALSE,
                                  ![d].embedding_path = "none"],
                     store, files, d, fail)} :
            /\ docs' = r.docs
            /\ store' = r.store
            /\ last' = Request("refresh", FALSE, TRUE,
                               <<Call(docs[d].file_path, d, docs, store, "refresh",
                                      FALSE, TRUE, TRUE, r, r.docs)>>, NoPrev, NoResult)
    /\ UNCHANGED <<files, running, fpq, emb, sched, sq, cq>>

\* POST /update-document-content (content_type = "content")
UpdateDocumentContent(d, t) ==
    /\ Tick
    /\ running
    /\ docs[d].present
    /\ HasText(t)
    /\ \E fail \in FailSets :
         \E r \in {IndexDocument([docs EXCEPT ![d].content = t,
                                              ![d].is_indexed = FALSE,
                                              ![d].embedding_path = "none"],
                                 store, files, d, fail)} :
            /\ docs' = r.docs
            /\ store' = r.store
            /\ last' = Request("update", FALSE, TRUE,
                               <<Call(docs[d].file_path, d, docs, store, "update", FALSE,
                                      FALSE, FALSE, r, r.docs)>>, NoPrev, NoResult)
    /\ UNCHANGED <<files, running, fpq, emb, sched, sq, cq>>

\* POST /reset-embeddings: reset_embeddings() removes the embeddings directory,
\* initialize() drops and recreates the collection and indexes the unindexed
\* rows; nothing here runs reindex_all_documents
ResetEmbeddings ==
    /\ Tick
    /\ running
    /\ \E failing \in SUBSET DocIds :
         \E b \in {IndexExistingLoop(docs, {}, files, 1, failing, << >>)} :
            /\ docs' = b.docs
            /\ store' = b.store
            /\ last' = Request("reset", FALSE, TRUE, b.calls, NoPrev, NoResult)
    /\ UNCHANGED <<files, running, fpq, emb, sched, sq, cq>>

\* DELETE /documents/{id}: collection.delete(ids=[embedding_path]) names
\* "doc_{id}_chunked", which is the id of no entry (entries are
\* "doc_{id}_chunk_{n}"), and deleting an id the collection does not hold
\* removes nothing; the row goes, and with delete_file the file
DeleteDocument(d, delete_file) ==
    /\ Tick
    /\ running
    /\ docs[d].present
    /\ docs' = [docs EXCEPT ![d] = NoDoc]
    /\ store' = store
    /\ files' = IF delete_file THEN [files EXCEPT ![docs[d].file_path] = NoFile] ELSE files
    /\ last' = Request("delete", delete_file, TRUE,
                       <<Call(docs[d].file_path, d, docs, store, "delete", FALSE, FALSE,
                              FALSE, NoPass, docs)>>, NoPrev, NoResult)
    /\ UNCHANGED <<running, fpq, emb, sched, sq, cq>>

Next ==
    \/ \E p \in Paths : ModifyFile(p)
    \/ Startup
    \/ Shutdown
    \/ \E p \in Paths, force \in BOOLEAN : ImportPath(p, force)
    \/ \E force \in BOOLEAN : ImportFolder(force)
    \/ \E p \in UploadPaths, force \in BOOLEAN : UploadFile(p, force)
    \/ \E d \in DocIds : RefreshDocument(d)
    \/ \E d \in DocIds, t \in Bytes : UpdateDocumentContent(d, t)
    \/ ResetEmbeddings
    \/ \E d \in DocIds, delete_file \in BOOLEAN : DeleteDocument(d, delete_file)

Spec == Init /\ [][Next]_vars

\* ------------------------------------------- the change check on its own
\* The change check as a function of its inputs: any stored fingerprint (a
\* nullable column each), any file, whether the file can be read for
\* hashing, and the caller's force flag.
MaxStamp == 2       \* stored and current modification times are 1..MaxStamp

Stamps == 1..MaxStamp
Sizes == {Size(b) : b \in Bytes}
StoredFps == [size : Sizes \cup {None}, mtime : Stamps \cup {None},
              hash : {Md5(b) : b \in Bytes} \cup {None}]
QueryFiles == {NoFile} \cup [exists : {TRUE}, bytes : Bytes, mtime : Stamps]

InitFP ==
    /\ files = [p \in Paths |-> NoFile]
    /\ docs = [d \in DocIds |-> NoDoc]
    /\ store = {}
    /\ running = FALSE
    /\ last = Request("init", FALSE, TRUE, << >>, NoPrev, NoResult)
    /\ served = 0
    /\ cq = NoChunking
    /\ emb = NoEmb
    /\ sched = NoSched
    /\ sq = NoSearch
    /\ fpq \in [phase : {"asked"}, stored : StoredFps, file : QueryFiles,
                hashOK : BOOLEAN, force : BOOLEAN, changed : {FALSE},
                reindex : {FALSE}]

\* _import_single_file's decision for a known file (lines 204-216): the
\* change check runs only without force
AnswerQuery ==
    /\ fpq.phase = "asked"
    /\ fpq' = [fpq EXCEPT !.phase = "answered",
                          !.changed = CheckFileChanged(fpq.file, fpq.stored, fpq.hashOK),
                          !.reindex = fpq.force
                                      \/ CheckFileChanged(fpq.file, fpq.stored, fpq.hashOK)]
    /\ UNCHANGED <<files, docs, store, running, last, served, emb, sched, sq, cq>>

NextFP == AnswerQuery

SpecFP == InitFP /\ [][NextFP]_vars

\* ------------------------------------------------------------- properties
Succeeded(c) == c.pass /\ ~Raised(c)
LastOn(i) == \A j \in (i + 1)..Len(last.calls) : last.calls[j].did # last.calls[i].did

\* the chunk list the pass of call c was given
ChunksOfPass(c) == IF c.via = "pages" THEN PageChunks(c.text) ELSE CreateChunks(c.text)

ImportOps == {"import", "import_folder", "upload"}

\* C1: after a successful indexing pass of a document (the last pass on it in
\* the request), the entries of the collection that belong to the document
\* are exactly the chunk set of that pass: as many as the new chunks, with
\* the new texts, and none from an earlier pass.
C1_EntriesAreTheChunkSet ==
    \A i \in 1..Len(last.calls) :
       (Succeeded(last.calls[i]) /\ LastOn(i)) =>
           EntriesOf(store, last.calls[i].did)
               = ChunkSet(last.calls[i].did, ChunksOfPass(last.calls[i]))

\* C2: in an indexing pass of a document that already has entries in the
\* collection, the first store operation is the delete of those entries; no
\* add for the document comes before it.
C2_DeleteBeforeInsert ==
    \A i \in 1..Len(last.calls) :
       (last.calls[i].pass /\ last.calls[i].hadEntries) =>
           /\ last.calls[i].ops # << >>
           /\ last.calls[i].ops[1].op = "delete"

\* two imports of one path in a row, both without force and both able to
\* read the file for hashing; no file changes between them
TwiceInARow ==
    /\ last.op = "import" /\ last'.op = "import"
    /\ ~last.force /\ ~last'.force
    /\ last.hashOK /\ last'.hashOK
    /\ last.calls[1].path = last'.calls[1].path
    /\ files' = files

\* C3 (as stated): the second of two unforced imports of an unchanged file
\* changes neither the collection nor the document rows, and runs neither
\* an extraction nor an indexing pass.
C3_SecondImportIsNoOp ==
    [][TwiceInARow =>
          /\ store' = store
          /\ docs' = docs
          /\ ~last'.calls[1].extracted
          /\ ~last'.calls[1].pass]_vars

\* the first import stored the file's fingerprint, or found it stored
FingerprintOnRecord(c) == c.content \/ c.check = "unchanged"

\* C3 (amended): the second of two unforced imports of an unchanged file
\* changes neither the collection nor the document rows and runs no indexing
\* pass; it runs no extraction either when the first import stored the
\* fingerprint (a file without text is extracted again by every import).
C3_SecondImportIsNoOpOnceRecorded ==
    [][TwiceInARow =>
          /\ store' = store
          /\ docs' = docs
          /\ ~last'.calls[1].pass
          /\ (FingerprintOnRecord(last.calls[1]) =>
                 /\ last'.calls[1].check = "unchanged"
                 /\ ~last'.calls[1].extracted)]_vars

\* the second of two unforced imports of a file with text was skipped
C3_Witness ==
    /\ last.op = "import" /\ ~last.force /\ last.hashOK
    /\ last.prev.check # "none" /\ ~last.prev.force /\ last.prev.hashOK
    /\ last.prev.path = last.calls[1].path
    /\ last.prev.content
    /\ last.calls[1].check = "unchanged"
    /\ EntriesOf(store, last.calls[1].did) # {}

\* C4: an import of a known file whose indexing pass does not complete
\* successfully (no pass at all, or an add that raised) leaves the size,
\* modification time and hash stored on the row as they were.
C4_FingerprintOnlyOnSuccess ==
    \A i \in 1..Len(last.calls) :
       (last.op \in ImportOps /\ last.calls[i].known /\ last.calls[i].fpChanged)
           => Succeeded(last.calls[i])

\* C5: with INDEXED read as is_indexed = True (the row has no other index
\* state), an error during a pass never leaves the document INDEXED.
C5_ErrorNeverIndexed ==
    \A i \in 1..Len(last.calls) :
       (last.calls[i].pass /\ Raised(last.calls[i]) /\ LastOn(i))
           => ~docs[last.calls[i].did].is_indexed

\* C6: when the indexing pass of an import failed, the next import of the
\* same file runs a new pass, also when the file is unchanged and force is
\* false.
C6_FailedPassIsRetried ==
    (/\ last.op = "import"
     /\ last.prev.check # "none"
     /\ last.prev.failed
     /\ last.prev.path = last.calls[1].path)
        => last.calls[1].pass

\* C7: whenever the stored and the current fingerprint differ in size,
\* modification time or hash, the change check answers true; without force
\* the file is left alone only when all three fields are equal.
C7_ChangeCheckConservative ==
    fpq.phase = "answered" =>
        /\ (fpq.stored # CurrentFp(fpq.file, fpq.hashOK)) => fpq.changed
        /\ (~fpq.force /\ ~fpq.reindex) => fpq.stored = CurrentFp(fpq.file, fpq.hashOK)

\* a file that differs from the stored fingerprint in the hash alone was
\* reported changed
C7_Witness ==
    /\ fpq.phase = "answered"
    /\ fpq.file.exists /\ fpq.hashOK /\ ~fpq.force
    /\ fpq.stored.size = Size(fpq.file.bytes)
    /\ fpq.stored.mtime = fpq.file.mtime
    /\ fpq.stored.hash # Md5(fpq.file.bytes)
    /\ fpq.changed /\ fpq.reindex

\* C8: when a part of the current fingerprint cannot be computed during the
\* change check of an import, the file is never skipped as unchanged.
C8_FingerprintFailureReindexes ==
    \A i \in 1..Len(last.calls) :
       last.calls[i].fpfail => last.calls[i].check # "unchanged"

\* the text of call c's document gives at least one chunk on the path the
\* import takes for its file type
Indexable(c) ==
    /\ c.content
    /\ IF FileTypeOf(c.path) = ".pdf" THEN PageChunks(docs[c.did].content) # << >>
       ELSE CreateChunks(docs[c.did].content) # << >>

\* C9: an import operation called with force = true on a known file never
\* skips it as unchanged, and runs an indexing pass whenever the file's
\* text gives chunks.
C9_ForceAlwaysReindexes ==
    \A i \in 1..Len(last.calls) :
       (last.op \in ImportOps /\ last.force /\ last.calls[i].known) =>
           /\ last.calls[i].check # "unchanged"
           /\ Indexable(last.calls[i]) => last.calls[i].pass

\* the calls of the last request on path p, and on document d
CallsOn(p) == {i \in 1..Len(last.calls) : last.calls[i].path = p}
SweepCallsOn(d) ==
    {i \in 1..Len(last.calls) : last.calls[i].did = d /\ last.calls[i].check = "sweep"}
Returned == {i \in 1..Len(last.calls) : last.calls[i].did # 0}

C11_FolderCountsMeanWhatTheySay ==
    last.op = "import_folder" =>
       /\ last.result.skipped
             = Cardinality({i \in 1..Len(last.calls) : last.calls[i].check = "unchanged"})
       /\ last.result.indexed
             = Cardinality({i \in 1..Len(last.calls) : Succeeded(last.calls[i])})
       /\ last.result.total = Cardinality(Returned)

\* every add of call c's pass raised: the pass stored no chunk
AllRaised(c) == c.pass /\ \A k \in 1..Len(c.ops) : c.ops[k].how = "raised"

\* C12: a document is marked indexed only if at least one chunk of its pass
\* reached the collection; when every add of the pass raised, the document
\* is not marked indexed.
C12_IndexedNeedsAStoredChunk ==
    \A i \in 1..Len(last.calls) :
       (AllRaised(last.calls[i]) /\ LastOn(i)) => ~docs[last.calls[i].did].is_indexed

\* --------------------------------------- the embedding side of the collection
\* The collection seen as the dimensions of the vectors it holds, in the
\* order they were added. Every chunk add and every query embeds its text
\* with _get_embedding; whether the provider's call succeeds is the
\* environment's choice.
OpenAIDim == 1536   \* text-embedding-ada-002
SimpleDim == 384    \* the hash-based fallback embedding
MaxVectors == 3     \* vectors in the collection
MaxEmbedSteps == 6  \* startups, adds, queries and shutdowns in one behaviour

\* _get_embedding_function: OpenAI when OPENAI_API_KEY is set and the
\* embedder can be constructed, the simple embedding otherwise
ProviderOf(key, constructed) == IF key /\ constructed THEN "openai" ELSE "simple"

\* the dimension _get_embedding_function reports for the provider
EmbeddingDimension(provider) == IF provider = "openai" THEN OpenAIDim ELSE SimpleDim

\* _create_simple_embedding: the length of the vector it builds
CreateSimpleEmbedding == SimpleDim

\* _get_embedding: the length of the vector it returns; a failing provider
\* call is answered with the simple embedding
GetEmbedding(provider, ok) ==
    IF provider = "openai" /\ ok THEN OpenAIDim ELSE CreateSimpleEmbedding

\* the dimension of the collection: that of the first vector added to it
CollectionDim(vs) == IF vs = << >> THEN None ELSE vs[1]

\* collection.add of one vector: ChromaDB raises when its length is not the
\* collection's dimension
CollectionAdd(vs, dim) ==
    IF vs # << >> /\ dim # CollectionDim(vs)
    THEN [vectors |-> vs, how |-> "raised"]
    ELSE [vectors |-> Append(vs, dim), how |-> "stored"]

\* collection.query with a vector of length dim: ChromaDB raises on a
\* mismatch, and semantic_search then returns no hits
CollectionQuery(vs, dim) ==
    IF vs # << >> /\ dim # CollectionDim(vs) THEN "raised" ELSE "answered"

EmbedTick == served < MaxEmbedSteps /\ served' = served + 1

InitEmbed ==
    /\ files = [p \in Paths |-> NoFile]
    /\ docs = [d \in DocIds |-> NoDoc]
    /\ store = {}
    /\ running = FALSE
    /\ last = Request("init", FALSE, TRUE, << >>, NoPrev, NoResult)
    /\ served = 0
    /\ cq = NoChunking
    /\ fpq = NoQuery
    /\ sched = NoSched
    /\ sq = NoSearch
    /\ emb = [provider |-> "none", active |-> None, vectors |-> << >>, up |-> FALSE,
              op |-> "init", dim |-> None, how |-> "none"]

\* initialize(): the provider is chosen, the collection is deleted and
\* created again with the provider's dimension in its metadata
EmbedStartup ==
    /\ EmbedTick
    /\ ~emb.up
    /\ \E key \in BOOLEAN, constructed \in BOOLEAN :
          emb' = [provider |-> ProviderOf(key, constructed),
                  active |-> EmbeddingDimension(ProviderOf(key, constructed)),
                  vectors |-> << >>, up |-> TRUE,
                  op |-> "startup", dim |-> None, how |-> "none"]
    /\ UNCHANGED <<files, docs, store, running, last, fpq, sched, sq, cq>>

\* one chunk of index_document_chunks: embedded, then added
EmbedChunk ==
    /\ EmbedTick
    /\ emb.up
    /\ Len(emb.vectors) < MaxVectors
    /\ \E ok \in BOOLEAN :
          \E r \in {CollectionAdd(emb.vectors, GetEmbedding(emb.provider, ok))} :
             emb' = [emb EXCEPT !.vectors = r.vectors, !.op = "add",
                                !.dim = GetEmbedding(emb.provider, ok), !.how = r.how]
    /\ UNCHANGED <<files, docs, store, running, last, fpq, sched, sq, cq>>

\* semantic_search: the query is embedded, then the collection is queried
EmbedQuery ==
    /\ EmbedTick
    /\ emb.up
    /\ \E ok \in BOOLEAN :
          emb' = [emb EXCEPT !.op = "query",
                             !.dim = GetEmbedding(emb.provider, ok),
                             !.how = CollectionQuery(emb.vectors,
                                                     GetEmbedding(emb.provider, ok))]
    /\ UNCHANGED <<files, docs, store, running, last, fpq, sched, sq, cq>>

\* shutdown_event: the persisted collection stays as it is
EmbedShutdown ==
    /\ EmbedTick
    /\ emb.up
    /\ emb' = [emb EXCEPT !.up = FALSE, !.op = "shutdown", !.dim = None, !.how = "none"]
    /\ UNCHANGED <<files, docs, store, running, last, fpq, sched, sq, cq>>

NextEmbed == EmbedStartup \/ EmbedChunk \/ EmbedQuery \/ EmbedShutdown

SpecEmbed == InitEmbed /\ [][NextEmbed]_vars

\* C13: every vector in the collection has the dimension the collection was
\* created with (that of the active provider), also when a fallback
\* embedding was substituted, and a query is embedded with the dimension of
\* the vectors in the index.
C13_OneDimension ==
    emb.provider # "none" =>
       /\ \A k \in 1..Len(emb.vectors) : emb.vectors[k] = emb.active
       /\ (emb.op = "query" /\ emb.vectors # << >>) => emb.dim = CollectionDim(emb.vectors)

\* C14: when startup has finished without a store error, every document
\* whose content gives chunks has entries in the collection, whatever mix of
\* indexed and unindexed rows the database held before.
C14_StartupRebuildsTheIndex ==
    (/\ last.op \in {"startup", "startup_sweep"}
     /\ \A i \in 1..Len(last.calls) : ~Raised(last.calls[i]))
        => \A d \in DocIds :
              (docs[d].present /\ HasText(docs[d].content)
                  /\ CreateChunks(docs[d].content) # << >>)
                 => EntriesOf(store, d) # {}

\* ------------------------------------------- the handlers on the event loop
\* uvicorn runs the application in one process on one asyncio event loop,
\* and every handler is an async def: a handler task keeps the loop until it
\* awaits something that really suspends, or returns. The tasks below all
\* index or search the same document; their steps are the segments of the
\* handlers, the adds of a pass one by one.
MaxTasks == 3       \* handler tasks in one behaviour

Tasks == 1..MaxTasks
Kinds == {"upload", "update", "search"}
PassLen == MaxPieces

\* a schedule that also gives up the event loop between the adds of a pass
SuspendsInPass(step) == step \in {"read", "add"}
\* whether the await that ends a step gives up the event loop: only
\* "await file.read()" of the upload awaits outside the application's own
\* coroutines; _extract_content, index_document, index_document_chunks are
\* coroutines without a suspending await, _get_embedding and collection.add
\* are plain calls
Suspends(step) == step = "read"

CanRun(t) == sched.loop \in {0, t}
After(t, step) == IF Suspends(step) THEN 0 ELSE t
Indexing(t) == sched.pc[t] = "adding"

InitSched ==
    /\ files = [p \in Paths |-> NoFile]
    /\ docs = [d \in DocIds |-> NoDoc]
    /\ store = {}
    /\ running = FALSE
    /\ last = Request("init", FALSE, TRUE, << >>, NoPrev, NoResult)
    /\ served = 0
    /\ cq = NoChunking
    /\ fpq = NoQuery
    /\ emb = NoEmb
    /\ sq = NoSearch
    /\ sched = [loop |-> 0, kind |-> [t \in Tasks |-> "none"],
                pc |-> [t \in Tasks |-> "idle"], k |-> [t \in Tasks |-> 0],
                partial |-> FALSE]

\* a request arrives and its handler task is created
Arrive(t, kind) ==
    /\ sched.pc[t] = "idle"
    /\ sched' = [sched EXCEPT !.kind[t] = kind, !.pc[t] = "ready"]
    /\ UNCHANGED <<files, docs, store, running, last, served, fpq, emb, sq, cq>>

\* FileService.import_file: open the temporary file, await file.read()
Receive(t) ==
    /\ sched.kind[t] = "upload" /\ sched.pc[t] = "ready"
    /\ CanRun(t)
    /\ sched' = [sched EXCEPT !.pc[t] = "read", !.loop = After(t, "read")]
    /\ UNCHANGED <<files, docs, store, running, last, served, fpq, emb, sq, cq>>

\* the handler up to the first add of its pass: _import_single_file's check,
\* extraction and row update, or update_document_content's row update
Begin(t) ==
    /\ \/ sched.kind[t] = "upload" /\ sched.pc[t] = "read"
       \/ sched.kind[t] = "update" /\ sched.pc[t] = "ready"
    /\ CanRun(t)
    /\ sched' = [sched EXCEPT !.pc[t] = "adding", !.k[t] = 0, !.loop = After(t, "begin")]
    /\ UNCHANGED <<files, docs, store, running, last, served, fpq, emb, sq, cq>>

\* one iteration of the add loop of index_document_chunks
Add(t) ==
    /\ Indexing(t) /\ sched.k[t] < PassLen
    /\ CanRun(t)
    /\ sched' = [sched EXCEPT !.k[t] = @ + 1, !.loop = After(t, "add")]
    /\ UNCHANGED <<files, docs, store, running, last, served, fpq, emb, sq, cq>>

\* the pass is over: the row is marked and the handler returns
Finish(t) ==
    /\ Indexing(t) /\ sched.k[t] = PassLen
    /\ CanRun(t)
    /\ sched' = [sched EXCEPT !.pc[t] = "done", !.loop = 0]
    /\ UNCHANGED <<files, docs, store, running, last, served, fpq, emb, sq, cq>>

\* semantic_search: one query of the collection, then the handler returns;
\* partial records that it ran while a pass on the document was under way
Search(t) ==
    /\ sched.kind[t] = "search" /\ sched.pc[t] = "ready"
    /\ CanRun(t)
    /\ sched' = [sched EXCEPT !.pc[t] = "done", !.loop = 0,
                              !.partial = @ \/ \E u \in Tasks \ {t} : Indexing(u)]
    /\ UNCHANGED <<files, docs, store, running, last, served, fpq, emb, sq, cq>>

NextSched ==
    \/ \E t \in Tasks, kind \in Kinds : Arrive(t, kind)
    \/ \E t \in Tasks : Receive(t)
    \/ \E t \in Tasks : Begin(t)
    \/ \E t \in Tasks : Add(t)
    \/ \E t \in Tasks : Finish(t)
    \/ \E t \in Tasks : Search(t)

SpecSched == InitSched /\ [][NextSched]_vars

\* C15: at most one indexing pass on the document is under way at any time
\* (the steps of one pass are never interleaved with another attempt), and
\* no search has run while a pass was under way.
C15_OnePassAtATime ==
    /\ Cardinality({t \in Tasks : Indexing(t)}) <= 1
    /\ ~sched.partial

\* a pass is half done while an upload of the same document has been
\* received and a search is waiting
C15_Witness ==
    /\ sched.loop # 0
    /\ \E t \in Tasks, u \in Tasks, v \in Tasks :
          /\ Indexing(t) /\ sched.k[t] = 1
          /\ sched.kind[u] = "upload" /\ sched.pc[u] = "read"
          /\ sched.kind[v] = "search" /\ sched.pc[v] = "ready"

\* ---------------------------------------------------------------------------
\* Filename boost (search_service.py, _normalize_filename and
\* _calculate_filename_boost)
\*
\* A string is a sequence of symbols.  "a" and "A" are a letter in its two
\* cases, " " is whitespace, "." is the dot, and "txt" / "docx" / "pdf" stand for
\* those letters written in a row (no other symbol is one of their letters, so
\* substring tests on symbols and on characters agree).  Boosts are in tenths.
\* ---------------------------------------------------------------------------

MaxStemLen == 3
MaxTokens == 2

ExactBoost == 20
StemBoost == 18
ContainsBoost == 15
FuzzyBoost == 13
NoBoost == 10

SeqsUpTo(S, n) == UNION {[1..k -> S] : k \in 1..n}

\* names of stored documents: any stem, then a supported extension
StemChars == {"a", "A", " ", "."}
Exts == {"txt", "docx", "pdf"}
FileNames == {s \o <<".", e>> : s \in SeqsUpTo(StemChars, MaxStemLen), e \in Exts}

\* what _extract_filenames_from_query yields on a lowercased query: pattern 1
\* gives name.ext (the name may hold or start with whitespace), pattern 2 gives
\* runs of 2 to 20 name characters between word boundaries that are not common
\* words ("txt" is one, "docx" is not)
QueryChars == {"a", " "}
Pattern1Tokens == {s \o <<".", "txt">> : s \in SeqsUpTo(QueryChars, MaxStemLen)}
Pattern2Tokens ==
    {s \in SeqsUpTo(QueryChars, MaxStemLen) :
        Len(s) >= 2 /\ s[1] # " " /\ s[Len(s)] # " "} \cup {<<"docx">>}
Tokens == Pattern1Tokens \cup Pattern2Tokens

\* the lists it returns: pattern 1 matches first, duplicates removed
TokenLists ==
    {l \in {<< >>} \cup SeqsUpTo(Tokens, MaxTokens) :
        /\ \A i \in 1..Len(l), j \in 1..Len(l) : i # j => l[i] # l[j]
        /\ \A i \in 1..Len(l), j \in 1..Len(l) :
              (i < j /\ l[i] \in Pattern2Tokens) => l[j] \in Pattern2Tokens}

Lower(s) == [i \in 1..Len(s) |-> IF s[i] = "A" THEN "a" ELSE s[i]]

RECURSIVE LStrip(_)
LStrip(s) == IF s # << >> /\ Head(s) = " " THEN LStrip(Tail(s)) ELSE s

RECURSIVE RStrip(_)
RStrip(s) ==
    IF s # << >> /\ s[Len(s)] = " " THEN RStrip(SubSeq(s, 1, Len(s) - 1)) ELSE s

Strip(s) == RStrip(LStrip(s))

\* re.sub(r'\s+', ' ', s): every run of whitespace becomes one space
RECURSIVE CollapseSpaces(_)
CollapseSpaces(s) ==
    IF Len(s) < 2 THEN s
    ELSE IF s[1] = " " /\ s[2] = " " THEN CollapseSpaces(Tail(s))
    ELSE <<s[1]>> \o CollapseSpaces(Tail(s))

NormalizeFilename(filename) == CollapseSpaces(Strip(Lower(filename)))

\* s.rsplit('.', 1)[0] if '.' in s else s
RSplitName(s) ==
    IF \E i \in 1..Len(s) : s[i] = "."
    THEN SubSeq(s, 1, (CHOOSE i \in 1..Len(s) :
                          s[i] = "." /\ \A j \in (i + 1)..Len(s) : s[j] # ".") - 1)
    ELSE s

\* Python's  x in y  on strings
In(x, y) == \E i \in 0..(Len(y) - Len(x)) : SubSeq(y, i + 1, i + Len(x)) = x

\* tiers that test the loose substring before the names without extension
TierLooseFirst(result_normalized, query_normalized) ==
    IF result_normalized = query_normalized THEN ExactBoost
    ELSE IF \/ In(query_normalized, result_normalized)
            \/ In(result_normalized, query_normalized)
         THEN FuzzyBoost
    ELSE IF RSplitName(result_normalized) = RSplitName(query_normalized) THEN StemBoost
    ELSE IF \/ In(RSplitName(query_normalized), RSplitName(result_normalized))
            \/ In(RSplitName(result_normalized), RSplitName(query_normalized))
         THEN ContainsBoost
    ELSE 0
\* the tier of one query filename against one result filename, 0 for none
Tier(result_normalized, query_normalized) ==
    IF result_normalized = query_normalized THEN ExactBoost
    ELSE IF RSplitName(result_normalized) = RSplitName(query_normalized) THEN StemBoost
    ELSE IF \/ In(RSplitName(query_normalized), RSplitName(result_normalized))
            \/ In(RSplitName(result_normalized), RSplitName(query_normalized))
         THEN ContainsBoost
    ELSE IF \/ In(query_normalized, result_normalized)
            \/ In(result_normalized, query_normalized)
         THEN FuzzyBoost
    ELSE 0

\* the loop returns at the first query filename that matches at any tier
RECURSIVE CalculateFilenameBoost(_, _)
CalculateFilenameBoost(result_filename, query_filenames) ==
    IF query_filenames = << >> THEN NoBoost
    ELSE IF Tier(NormalizeFilename(result_filename),
                 NormalizeFilename(Head(query_filenames))) # 0
         THEN Tier(NormalizeFilename(result_filename),
                   NormalizeFilename(Head(query_filenames)))
    ELSE CalculateFilenameBoost(result_filename, Tail(query_filenames))

\* ---------------------------------------------------------------------------
\* The boost of one stored filename under one extracted token list
\* ---------------------------------------------------------------------------

InitBoost ==
    /\ files = [p \in Paths |-> NoFile]
    /\ docs = [d \in DocIds |-> NoDoc]
    /\ store = {}
    /\ running = FALSE
    /\ last = Request("init", FALSE, TRUE, << >>, NoPrev, NoResult)
    /\ served = 0
    /\ cq = NoChunking
    /\ fpq = NoQuery
    /\ emb = NoEmb
    /\ sched = NoSched
    /\ \E f \in FileNames, l \in TokenLists :
          sq = [phase |-> "asked", filename |-> f, tokens |-> l, boost |-> 0]

Boost ==
    /\ sq.phase = "asked"
    /\ sq' = [sq EXCEPT !.phase = "answered",
                        !.boost = CalculateFilenameBoost(sq.filename, sq.tokens)]
    /\ UNCHANGED <<files, docs, store, running, last, served, fpq, emb, sched, cq>>

NextBoost == Boost

SpecBoost == InitBoost /\ [][NextBoost]_vars

\* C17: under a token list that contains the token t, alone or with other
\* tokens in any order, a filename that equals t after normalization gets a
\* strictly greater boost than every filename that merely contains t, and a
\* filename that merely contains t gets a boost strictly greater than 1.0.
C17_ExactBeatsSubstring ==
    sq.phase = "answered" =>
       \A k \in 1..Len(sq.tokens) :
          /\ NormalizeFilename(sq.filename) = NormalizeFilename(sq.tokens[k])
                => \A g \in FileNames :
                      (/\ NormalizeFilename(g) # NormalizeFilename(sq.tokens[k])
                       /\ In(NormalizeFilename(sq.tokens[k]), NormalizeFilename(g)))
                         => sq.boost > CalculateFilenameBoost(g, sq.tokens)
          /\ (/\ NormalizeFilename(sq.filename) # NormalizeFilename(sq.tokens[k])
              /\ In(NormalizeFilename(sq.tokens[k]), NormalizeFilename(sq.filename)))
                => sq.boost > NoBoost

\* a normalized name has no upper case, no whitespace at either end and no
\* two whitespace symbols in a row
Normalized(s) ==
    /\ \A i \in 1..Len(s) : s[i] # "A"
    /\ s # << >> => (s[1] # " " /\ s[Len(s)] # " ")
    /\ \A i \in 1..(Len(s) - 1) : ~(s[i] = " " /\ s[i + 1] = " ")

\* C18: for one query token and one filename, compared after normalization,
\* the boost is 2.0 on equality, otherwise 1.8 when equal without the
\* extension, otherwise 1.5 when one extension-stripped name contains the
\* other, otherwise 1.3 on a loose substring in either direction, otherwise
\* 1.0; with no query token it is 1.0.
C18_BoostTiers ==
    (sq.phase = "answered" /\ Len(sq.tokens) <= 1) =>
       IF sq.tokens = << >> THEN sq.boost = 10
       ELSE \E r \in {NormalizeFilename(sq.filename)}, q \in {NormalizeFilename(sq.tokens[1])} :
               /\ Normalized(r) /\ Normalized(q)
               /\ r = q => sq.boost = 20
               /\ (r # q /\ RSplitName(r) = RSplitName(q)) => sq.boost = 18
               /\ (/\ r # q /\ RSplitName(r) # RSplitName(q)
                   /\ (In(RSplitName(r), RSplitName(q)) \/ In(RSplitName(q), RSplitName(r))))
                     => sq.boost = 15
               /\ (/\ r # q /\ RSplitName(r) # RSplitName(q)
                   /\ ~In(RSplitName(r), RSplitName(q)) /\ ~In(RSplitName(q), RSplitName(r))
                   /\ (In(r, q) \/ In(q, r)))
                     => sq.boost = 13
               /\ (/\ r # q /\ RSplitName(r) # RSplitName(q)
                   /\ ~In(RSplitName(r), RSplitName(q)) /\ ~In(RSplitName(q), RSplitName(r))
                   /\ ~In(r, q) /\ ~In(q, r))
                     => sq.boost = 10

\* a filename in mixed case with surrounding whitespace, matched by its stem
\* only through the loose substring tier
C18_Witness ==
    /\ sq.phase = "answered"
    /\ Len(sq.tokens) = 1
    /\ sq.boost = 13
    /\ sq.filename # NormalizeFilename(sq.filename)

\* ---------------------------------------------------------------------------
\* semantic_search (search_service.py 625-713): score, boost, clamp, re-rank
\* and filter the hits the collection returns.  Distances are cosine distances
\* in tenths (0 to 2.0), scores in tenths, final scores in hundredths.
\* ---------------------------------------------------------------------------

MaxHits == 3
MaxDistance == 20

Distances == {0, 5, 15, MaxDistance}

\* the documents behind the hits: filename and folder of the imported file,
\* and the time its chunks were created (ISO timestamps, "t1" < "t2" < "t3")
SearchDocs ==
    { [filename |-> <<"a", ".", "txt">>, folder |-> <<"in">>, time |-> <<"t1">>],
      [filename |-> <<"a", ".", "pdf">>, folder |-> <<"old">>, time |-> <<"t3">>],
      [filename |-> <<"A", "a", ".", "pdf">>, folder |-> <<"in">>, time |-> <<"t1">>],
      [filename |-> <<"b", ".", "txt">>, folder |-> <<"in">>, time |-> <<"t3">>] }

\* the order of ISO timestamps as strings
StampRank(t) == CASE t = <<"t1">> -> 1 [] t = <<"t2">> -> 2 [] OTHER -> 3

SourcePath(doc) == <<"/">> \o doc.folder \o <<"/">> \o doc.filename

\* s.split(".")[-1] if "." in s else ""
Extension(s) ==
    IF \E i \in 1..Len(s) : s[i] = "."
    THEN SubSeq(s, (CHOOSE i \in 1..Len(s) :
                       s[i] = "." /\ \A j \in (i + 1)..Len(s) : s[j] # ".") + 1, Len(s))
    ELSE << >>

\* the metadata a chunk was stored with: _create_chunks writes filename,
\* filetype, source_path and import_time ("text"); _import_single_file writes
\* filename, file_path, file_type and page for the pages of a PDF ("page")
MetaKinds(doc) ==
    IF Extension(doc.filename) = <<"pdf">> THEN {"text", "page"} ELSE {"text"}

RawHits ==
    { [filename |-> doc.filename, path |-> SourcePath(doc), kind |-> k, dist |-> d,
       import_time |-> doc.time] :
         doc \in SearchDocs, k \in {"text", "page"}, d \in Distances }

\* collection.query returns at most top_k hits, nearest first
HitLists ==
    {l \in UNION {[1..k -> {h \in RawHits : \E doc \in SearchDocs :
                                 h.filename = doc.filename /\ h.kind \in MetaKinds(doc)}] :
                    k \in 0..MaxHits} :
        \A i \in 1..(Len(l) - 1) : l[i].dist <= l[i + 1].dist}

SearchTokenLists ==
    {l \in TokenLists : l \in {<< >>, <<<<"a", ".", "txt">>>>, <<<<"docx">>>>}}

\* the filters dict: a function from the keys present to their values
FilterValues ==
    [filetype |-> {<<"pdf">>, <<"txt">>}, folder |-> {<<"old">>},
     import_time_after |-> {<<"t2">>}, import_time_before |-> {<<"t2">>},
     sort |-> {<<"x">>}]
FilterSets ==
    {f \in UNION {[K -> {<<"pdf">>, <<"txt">>, <<"old">>, <<"t2">>, <<"x">>}] :
                     K \in SUBSET {"filetype", "folder", "import_time_after",
                                   "import_time_before", "sort"}} :
        \A key \in DOMAIN f : f[key] \in FilterValues[key]}

Score(dist) == 10 - dist

Min2(a, b) == IF a < b THEN a ELSE b
Max2(a, b) == IF a > b THEN a ELSE b

\* a product that is not cut off at 1.0
FinalScoreNoCeiling(score, filename_boost) == Max2(0, score * filename_boost)
\* max(0.0, min(1.0, score * filename_boost))
FinalScore(score, filename_boost) == Max2(0, Min2(100, score * filename_boost))

\* one entry of search_results; meta.get("source_path") is None for a chunk
\* stored with the page metadata
SearchResult(hit, rank, query_filenames) ==
    [rank |-> rank,
     filename |-> hit.filename,
     file_path |-> IF hit.kind = "text" THEN hit.path ELSE << >>,
     has_path |-> hit.kind = "text",
     metadata |-> [import_time |-> IF hit.kind = "text" THEN hit.import_time ELSE << >>],
     original_score |-> Score(hit.dist),
     filename_boost |-> CalculateFilenameBoost(hit.filename, query_filenames),
     score |-> FinalScore(Score(hit.dist),
                          CalculateFilenameBoost(hit.filename, query_filenames))]

SearchResults(hits, query_filenames) ==
    [i \in 1..Len(hits) |-> SearchResult(hits[i], i, query_filenames)]

\* an insertion that puts a result behind the results of equal score
RECURSIVE InsertBehindEqual(_, _)
InsertBehindEqual(x, sorted) ==
    IF sorted = << >> THEN <<x>>
    ELSE IF Head(sorted).score >= x.score
         THEN <<Head(sorted)>> \o InsertBehindEqual(x, Tail(sorted))
    ELSE <<x>> \o sorted
\* list.sort(key=score, reverse=True) is stable: x, which comes before every
\* element of sorted in the list, stays before those of equal score
RECURSIVE InsertByScore(_, _)
InsertByScore(x, sorted) ==
    IF sorted = << >> THEN <<x>>
    ELSE IF Head(sorted).score > x.score
         THEN <<Head(sorted)>> \o InsertByScore(x, Tail(sorted))
    ELSE <<x>> \o sorted

\* no re-ranking: the hits stay in retrieval order
KeepRetrievalOrder(rs) == rs
RECURSIVE SortByScore(_)
SortByScore(rs) ==
    IF rs = << >> THEN << >> ELSE InsertByScore(Head(rs), SortByScore(Tail(rs)))

\* _apply_filters calls .lower() on every result's file_path before it looks
\* at the filters: a None raises AttributeError
FiltersRaise(rs) == \E i \in 1..Len(rs) : ~rs[i].has_path

\* result.get("import_time"): an entry of search_results has no such key (the
\* import time is under "metadata"), so this is None, here the empty string
ResultImportTime(result) ==
    IF "import_time" \in DOMAIN result THEN result.import_time ELSE << >>

Passes(result, filters) ==
    /\ "filetype" \in DOMAIN filters
          => Extension(Lower(result.filename)) = Lower(filters["filetype"])
    /\ "folder" \in DOMAIN filters
          => In(Lower(filters["folder"]), Lower(result.file_path))
    /\ ("import_time_after" \in DOMAIN filters /\ ResultImportTime(result) # << >>)
          => ~(StampRank(ResultImportTime(result)) < StampRank(filters["import_time_after"]))
    /\ ("import_time_before" \in DOMAIN filters /\ ResultImportTime(result) # << >>)
          => ~(StampRank(ResultImportTime(result)) > StampRank(filters["import_time_before"]))

ApplyFilters(rs, filters) == SelectSeq(rs, LAMBDA r : Passes(r, filters))

\* the list semantic_search returns; any exception returns the empty list
Answer(ranked, filters) ==
    IF DOMAIN filters = {} THEN [results |-> ranked, raised |-> FALSE]
    ELSE IF FiltersRaise(ranked) THEN [results |-> << >>, raised |-> TRUE]
    ELSE [results |-> ApplyFilters(ranked, filters), raised |-> FALSE]

InitSearch ==
    /\ files = [p \in Paths |-> NoFile]
    /\ docs = [d \in DocIds |-> NoDoc]
    /\ store = {}
    /\ running = FALSE
    /\ last = Request("init", FALSE, TRUE, << >>, NoPrev, NoResult)
    /\ served = 0
    /\ cq = NoChunking
    /\ fpq = NoQuery
    /\ emb = NoEmb
    /\ sched = NoSched
    /\ \E h \in HitLists, l \in SearchTokenLists, f \in FilterSets :
          sq = [phase |-> "asked", hits |-> h, tokens |-> l, filters |-> f,
                ranked |-> << >>, results |-> << >>, raised |-> FALSE]

SemanticSearch ==
    /\ sq.phase = "asked"
    /\ \E ranked \in {SortByScore(SearchResults(sq.hits, sq.tokens))} :
          sq' = [phase |-> "answered", hits |-> sq.hits, tokens |-> sq.tokens,
                 filters |-> sq.filters, ranked |-> ranked]
                   @@ Answer(ranked, sq.filters)
    /\ UNCHANGED <<files, docs, store, running, last, served, fpq, emb, sched, cq>>

NextSearch == SemanticSearch

SpecSearch == InitSearch /\ [][NextSearch]_vars

\* C16: every returned hit has rawScore = 1 - distance and finalScore =
\* rawScore * boost cut off to [0, 1], so finalScore lies in [0, 1] for every
\* distance the store returns and every boost tier.
C16_FinalScoreIsClampedProduct ==
    sq.phase = "answered" =>
       \A i \in 1..Len(sq.results) :
          /\ sq.results[i].original_score = 10 - sq.hits[sq.results[i].rank].dist
          /\ sq.results[i].filename_boost \in {10, 13, 15, 18, 20}
          /\ sq.results[i].score =
                (IF sq.results[i].original_score * sq.results[i].filename_boost < 0 THEN 0
                 ELSE IF sq.results[i].original_score * sq.results[i].filename_boost > 100
                      THEN 100
                 ELSE sq.results[i].original_score * sq.results[i].filename_boost)
          /\ sq.results[i].score \in 0..100

\* one answer with a product above 1.0, a product below 0 and a product inside
C16_Witness ==
    /\ sq.phase = "answered"
    /\ \E i, j, k \in 1..Len(sq.results) :
          /\ sq.results[i].original_score * sq.results[i].filename_boost > 100
          /\ sq.results[j].original_score * sq.results[j].filename_boost < 0
          /\ sq.results[k].original_score * sq.results[k].filename_boost \in 1..99

\* C19: the returned list is in non-increasing finalScore order, and two hits
\* of equal finalScore appear in the order the vector store returned them.
C19_RankedAndStable ==
    sq.phase = "answered" =>
       \A i \in 1..Len(sq.results), j \in 1..Len(sq.results) :
          i < j => \/ sq.results[i].score > sq.results[j].score
                   \/ /\ sq.results[i].score = sq.results[j].score
                      /\ sq.results[i].rank < sq.results[j].rank

\* a boosted hit overtook a nearer one, and two hits whose products differ
\* tied after the cut
C19_Witness ==
    /\ sq.phase = "answered"
    /\ \E i, j \in 1..Len(sq.results) : i < j /\ sq.results[i].rank > sq.results[j].rank
    /\ \E i, j \in 1..Len(sq.results) :
          /\ i < j
          /\ sq.results[i].score = sq.results[j].score
          /\ sq.results[i].original_score * sq.results[i].filename_boost
                # sq.results[j].original_score * sq.results[j].filename_boost

\* the hits of the ranked list that satisfy every filter present, by the
\* filename and the path of the document the hit belongs to
Satisfies(r, filters) ==
    /\ "filetype" \in DOMAIN filters => Extension(Lower(r.filename)) = filters["filetype"]
    /\ "folder" \in DOMAIN filters => In(filters["folder"], Lower(sq.hits[r.rank].path))

\* C20: with filters, the answer is exactly the ranked hits that satisfy every
\* present filter (filetype, folder), in ranked order; unknown keys are
\* ignored and an empty filter set leaves the list unchanged, whichever import
\* path stored the hits.
C20_FiltersSelectTheRankedHits ==
    sq.phase = "answered" =>
       sq.results = SelectSeq(sq.ranked, LAMBDA r : Satisfies(r, sq.filters))

\* C21: with the import-time-after filter set no returned hit has a chunk
\* import timestamp earlier than the bound, and with the import-time-before
\* filter set none has one later than the bound.
C21_ImportTimeFiltersBound ==
    sq.phase = "answered" =>
       \A i \in 1..Len(sq.results) :
          sq.hits[sq.results[i].rank].kind = "text" =>
             /\ "import_time_after" \in DOMAIN sq.filters
                   => StampRank(sq.hits[sq.results[i].rank].import_time)
                         >= StampRank(sq.filters["import_time_after"])
             /\ "import_time_before" \in DOMAIN sq.filters
                   => StampRank(sq.hits[sq.results[i].rank].import_time)
                         <= StampRank(sq.filters["import_time_before"])

\* C23 as stated: of two hits with equal raw score, one with boost >= 1.5 and
\* one that matches no token, the boosted hit is ranked strictly before the
\* other, for every raw score and either retrieval order.
C23_BoostedHitRanksFirst ==
    sq.phase = "answered" =>
       \A i \in 1..Len(sq.results), j \in 1..Len(sq.results) :
          (/\ sq.results[i].original_score = sq.results[j].original_score
           /\ sq.results[i].filename_boost >= ContainsBoost
           /\ sq.results[j].filename_boost = NoBoost)
             => i < j

\* C23, amended: the same for raw scores strictly between 0 and 1; at raw
\* score 1.0 and at raw scores of 0 or less both final scores are cut off to
\* the same value and the hits stay in retrieval order.
C23_BoostedHitRanksFirstInsideTheRange ==
    sq.phase = "answered" =>
       \A i \in 1..Len(sq.results), j \in 1..Len(sq.results) :
          (/\ sq.results[i].original_score = sq.results[j].original_score
           /\ sq.results[i].original_score \in 1..9
           /\ sq.results[i].filename_boost >= ContainsBoost
           /\ sq.results[j].filename_boost = NoBoost)
             => i < j

\* the hit that matches no token was retrieved first and is ranked second
C23_Witness ==
    /\ sq.phase = "answered"
    /\ \E i \in 1..Len(sq.results), j \in 1..Len(sq.results) :
          /\ sq.results[i].original_score = sq.results[j].original_score
          /\ sq.results[i].original_score \in 1..9
          /\ sq.results[i].filename_boost >= ContainsBoost
          /\ sq.results[j].filename_boost = NoBoost
          /\ sq.results[j].rank < sq.results[i].rank
          /\ i < j

\* ---------------------------------------------------------------------------
\* What the indexing paths leave in the collection and on the rows
\* ---------------------------------------------------------------------------

\* C22: importing a PDF whose n pages have non-empty texts stores exactly n
\* chunks for the document, the k-th with the text of page k and page
\* metadata k.
C22_OneChunkPerPage ==
    \A i \in 1..Len(last.calls) :
       (last.calls[i].via = "pages" /\ Succeeded(last.calls[i]) /\ LastOn(i)) =>
           {[text |-> e.text, page |-> e.page, len |-> e.len] :
               e \in EntriesOf(store, last.calls[i].did)}
             = {[text |-> last.calls[i].text, page |-> k, len |-> Pages(last.calls[i].text)[k]] :
                  k \in 1..Len(Pages(last.calls[i].text))}

\* C25: every chunk in the vector store trims to at least 50 characters, on
\* every indexing path.
C25_StoredChunksAreLongEnough ==
    \A e \in store : e.len >= MinChunkLen

\* the metadata keys of entry e: _create_chunks writes the first set,
\* _import_single_file writes the second for the pages of a PDF
MetaKeys(e) ==
    IF e.page = 0
    THEN {"document_id", "filename", "filetype", "source_path", "import_time",
          "chunk_index", "chunk_size"}
    ELSE {"document_id", "filename", "file_path", "file_type", "page"}

\* C26: every entry of the vector store carries document id, filename, file
\* type, source path, import timestamp and chunk index, whichever import path
\* stored it.
C26_EntriesCarryTheMetadata ==
    \A e \in store :
       {"document_id", "filename", "filetype", "source_path", "import_time", "chunk_index"}
          \subseteq MetaKeys(e)

\* C27: the first import of a new file whose extraction returns content
\* leaves a row with is_indexed = true and with file hash and modification
\* time set, whatever the length of the content.  (last_indexed_at is written
\* in the same commit as is_indexed and nowhere else, so on a new row it is
\* set exactly when is_indexed is.)
C27_FirstImportIsIndexed ==
    \A i \in 1..Len(last.calls) :
       (last.op \in ImportOps /\ last.calls[i].check = "new" /\ last.calls[i].content) =>
           /\ docs[last.calls[i].did].present
           /\ docs[last.calls[i].did].is_indexed
           /\ docs[last.calls[i].did].file_hash # None
           /\ docs[last.calls[i].did].modified_time # None

\* C29: in every reachable state a document whose row says is_indexed has at
\* least one entry in the vector store.
C29_IndexedRowsHaveEntries ==
    \A d \in DocIds :
       (docs[d].present /\ docs[d].is_indexed) => EntriesOf(store, d) # {}

\* C30: after delete_document of a document that had been indexed, the vector
\* store holds no entry of that document.
C30_DeleteRemovesTheEntries ==
    (last.op = "delete" /\ last.calls[1].wasIndexed) =>
        EntriesOf(store, last.calls[1].did) = {}

MaxWords == 4

ChunkSize == 750
ChunkOverlap == 150

WordLens == {100, 400, 700, 1000}
Texts == SeqsUpTo(WordLens, MaxWords)

\* len(text)
TextLen(words) == SumSeq(words) + Len(words) - 1

\* the pieces the split at " " gives: lead is the kept separator
Pieces(words) ==
    [i \in 1..Len(words) |->
        [len |-> words[i] + (IF i > 1 THEN 1 ELSE 0), lead |-> IF i > 1 THEN 1 ELSE 0]]

RECURSIVE SumLen(_)
SumLen(ps) == IF ps = << >> THEN 0 ELSE Head(ps).len + SumLen(Tail(ps))

\* _join_docs: the pieces joined and stripped, as one chunk
Joined(current) == [len |-> SumLen(current) - current[1].lead, lead |-> 0]

\* the while loop of _merge_splits: pieces leave the front of current_doc
\* until what is left is at most the overlap and the next piece fits
RECURSIVE DropFront(_, _)
DropFront(current, len) ==
    IF \/ SumLen(current) > ChunkOverlap
       \/ (SumLen(current) + len > ChunkSize /\ SumLen(current) > 0)
    THEN DropFront(Tail(current), len)
    ELSE current

\* _merge_splits with the empty separator
RECURSIVE MergeSplits(_, _, _)
MergeSplits(splits, current, merged) ==
    IF splits = << >>
    THEN IF current = << >> THEN merged ELSE Append(merged, Joined(current))
    ELSE IF SumLen(current) + Head(splits).len > ChunkSize /\ current # << >>
    THEN MergeSplits(Tail(splits), Append(DropFront(current, Head(splits).len), Head(splits)),
                     Append(merged, Joined(current)))
    ELSE MergeSplits(Tail(splits), Append(current, Head(splits)), merged)

\* the loop of _split_text over the pieces, with no separator left for a
\* piece of chunk_size or more
RECURSIVE SplitLoop(_, _, _)
SplitLoop(splits, good, final) ==
    IF splits = << >> THEN final \o MergeSplits(good, << >>, << >>)
    ELSE IF Head(splits).len < ChunkSize
    THEN SplitLoop(Tail(splits), Append(good, Head(splits)), final)
    ELSE SplitLoop(Tail(splits), << >>,
                   Append(final \o MergeSplits(good, << >>, << >>), Head(splits)))

SplitText(words) == SplitLoop(Pieces(words), << >>, << >>)

\* the stripped lengths of the chunks _create_chunks returns: the pieces of at
\* least 50 stripped characters, or the whole text as one chunk when the
\* splitting raises
CreateChunksOfText(words, raises) ==
    IF raises THEN <<TextLen(words)>>
    ELSE SelectSeq([i \in 1..Len(SplitText(words)) |->
                       SplitText(words)[i].len - SplitText(words)[i].lead],
                   LAMBDA n : n >= MinChunkLen)

InitChunk ==
    /\ files = [p \in Paths |-> NoFile]
    /\ docs = [d \in DocIds |-> NoDoc]
    /\ store = {}
    /\ running = FALSE
    /\ last = Request("init", FALSE, TRUE, << >>, NoPrev, NoResult)
    /\ served = 0
    /\ fpq = NoQuery
    /\ emb = NoEmb
    /\ sched = NoSched
    /\ sq = NoSearch
    /\ \E words \in Texts, raises \in BOOLEAN :
          cq = [phase |-> "asked", words |-> words, raises |-> raises, chunks |-> << >>]

Chunk ==
    /\ cq.phase = "asked"
    /\ cq' = [cq EXCEPT !.phase = "answered",
                        !.chunks = CreateChunksOfText(cq.words, cq.raises)]
    /\ UNCHANGED <<files, docs, store, running, last, served, fpq, emb, sched, sq>>

NextChunk == Chunk

SpecChunk == InitChunk /\ [][NextChunk]_vars

\* C24: for every text, every chunk the chunker produces except possibly the
\* last has at most targetSize + overlap = 900 characters, also for texts
\* without separators and on the fallback path.
C24_ChunksAreBounded ==
    cq.phase = "answered" =>
       \A i \in 1..(Len(cq.chunks) - 1) : cq.chunks[i] <= ChunkSize + ChunkOverlap
====
